---- MODULE Spec2Model ----
(***************************************************************************)
(* Model of lib/uint64set: Set, bucket32 and bucket16.                     *)
(*                                                                         *)
(* Representation of values.  TLC integers are 32 bits wide, so a uint64 x *)
(* is carried as the pair <<hi, lo>> of the two uint32 halves the code     *)
(* computes first (hi = uint32(x >> 32), lo = uint32(x)); the order on     *)
(* uint64 is the lexicographic order on such pairs.  A 64-bit bitmap word  *)
(* is carried as the set of its set bit positions, and the array           *)
(* [wordsPerBucket]uint64 as the set of pairs <<wordNum, bit>> of its set  *)
(* bits.  A nil bits pointer is the empty sequence <<>>, a non-nil one is  *)
(* the one-element sequence holding the array.  Of the array smallPool      *)
(* [56]uint16 the model keeps the slice smallPool[:smallPoolLen]: the code *)
(* reads a slot beyond smallPoolLen only in copyTo, which copies it, and   *)
(* in the promotion loop, which runs when smallPoolLen is the capacity.    *)
(***************************************************************************)
EXTENDS Integers, Sequences, FiniteSets, TLC

maxUnsortedBuckets == 32
smallPoolCap == 56
bitsPerBucket == 65536
wordBits == 64
wordsPerBucket == bitsPerBucket \div wordBits

(***************************************************************************)
(* Helpers for sequences.                                                  *)
(***************************************************************************)
Range(q) == {q[i] : i \in 1..Len(q)}

\* sort.IsSorted: no element is Less than its predecessor
IsSortedSeq(q) == \A i \in 2..Len(q) : ~(q[i] < q[i-1])

\* the ascending arrangement of q (the result of sort.Sort and sort.Slice on
\* integer keys): element i goes to the place given by the number of
\* elements smaller than it, equal ones kept in their order
SortAsc(q) ==
    LET n    == Len(q)
        rank == [i \in 1..n |->
                    Cardinality({j \in 1..n : q[j] < q[i] \/ (q[j] = q[i] /\ j < i)})]
    IN  IF IsSortedSeq(q) THEN q
        ELSE [k \in 1..n |-> q[CHOOSE i \in 1..n : rank[i] = k - 1]]

\* TLC evaluates LET definitions and arguments lazily; a loop carried by a
\* recursive operator tests Evaluated(v) on each intermediate value v so that
\* it is computed when the loop reaches it and not as one nested chain at
\* the end.  Evaluated(v) is TRUE for every v.  A loop over a fixed range
\* lo..hi is written as the loop over lo..Mid(lo, hi) followed by the loop
\* over the rest, which keeps the nesting of the evaluation logarithmic.
Evaluated(v) == v = v

Mid(lo, hi) == (lo + hi) \div 2

(***************************************************************************)
(* bucket16: the leaf.                                                     *)
(***************************************************************************)
\* the zero value bucket16{}
ZeroBucket16 == [bits |-> <<>>, smallPoolLen |-> 0, smallPool |-> <<>>]

\* wordNum := x / 64, bitMask := 1 << (x & 63); the mask is carried as its
\* bit position
getWordNumBitMask(x) == <<x \div wordBits, x % wordBits>>

b16_hasInSmallPool(b, x) == \E i \in 1..b.smallPoolLen : b.smallPool[i] = x

b16_has(b, x) ==
    IF b.bits = <<>> THEN b16_hasInSmallPool(b, x)
    ELSE getWordNumBitMask(x) \in b.bits[1]

\* b.add(x) on a leaf whose bits are non-nil: *word |= bitMask
b16_addBit(b, x) ==
    [b  |-> [b EXCEPT !.bits = <<b.bits[1] \cup {getWordNumBitMask(x)}>>],
     ok |-> getWordNumBitMask(x) \notin b.bits[1]]

\* for _, v := range b.smallPool[:] { b.add(v) } for the slots lo..hi, pool
\* being the full array
RECURSIVE b16_addPoolToBits(_, _, _, _)
b16_addPoolToBits(b, pool, lo, hi) ==
    IF lo > hi THEN b
    ELSE IF lo = hi THEN b16_addBit(b, pool[lo]).b
    ELSE LET b1 == b16_addPoolToBits(b, pool, lo, Mid(lo, hi))
         IN  IF Evaluated(b1) THEN b16_addPoolToBits(b1, pool, Mid(lo, hi) + 1, hi) ELSE b

\* b16_addToSmallPool with the promotion loop left out: the values of the
\* pool are not carried into the new bitmap
b16_addToSmallPool_noRehome(b, x) ==
    IF b16_hasInSmallPool(b, x) THEN [b |-> b, ok |-> FALSE]
    ELSE IF b.smallPoolLen < smallPoolCap
    THEN [b  |-> [b EXCEPT !.smallPool = Append(b.smallPool, x),
                           !.smallPoolLen = b.smallPoolLen + 1],
          ok |-> TRUE]
    ELSE [b  |-> b16_addBit([b EXCEPT !.smallPoolLen = 0, !.bits = <<{}>>,
                                      !.smallPool = <<>>], x).b,
          ok |-> TRUE]

\* b16_addToSmallPool with the last b.add(x) of the promotion left out
b16_addToSmallPool_dropNew(b, x) ==
    IF b16_hasInSmallPool(b, x) THEN [b |-> b, ok |-> FALSE]
    ELSE IF b.smallPoolLen < smallPoolCap
    THEN [b  |-> [b EXCEPT !.smallPool = Append(b.smallPool, x),
                           !.smallPoolLen = b.smallPoolLen + 1],
          ok |-> TRUE]
    ELSE [b  |-> b16_addPoolToBits(
                     [b EXCEPT !.smallPoolLen = 0, !.bits = <<{}>>,
                               !.smallPool = <<>>],
                     b.smallPool, 1, Len(b.smallPool)),
          ok |-> TRUE]

b16_addToSmallPool(b, x) ==
    IF b16_hasInSmallPool(b, x) THEN [b |-> b, ok |-> FALSE]
    ELSE IF b.smallPoolLen < smallPoolCap
    THEN [b  |-> [b EXCEPT !.smallPool = Append(b.smallPool, x),
                           !.smallPoolLen = b.smallPoolLen + 1],
          ok |-> TRUE]
    ELSE [b  |-> b16_addBit(b16_addPoolToBits(
                     [b EXCEPT !.smallPoolLen = 0, !.bits = <<{}>>,
                               !.smallPool = <<>>],
                     b.smallPool, 1, Len(b.smallPool)), x).b,
          ok |-> TRUE]

b16_add(b, x) ==
    IF b.bits = <<>> THEN b16_addToSmallPool(b, x) ELSE b16_addBit(b, x)

\* b16_delAt with the copy left out: the last value is dropped, not the i-th
b16_delAt_noCopy(b, i) ==
    [b EXCEPT !.smallPool = SubSeq(b.smallPool, 1, b.smallPoolLen - 1),
              !.smallPoolLen = b.smallPoolLen - 1]

\* copy(b.smallPool[i:], b.smallPool[i+1:]); b.smallPoolLen--  (i is 1-based)
b16_delAt(b, i) ==
    [b EXCEPT !.smallPool = [j \in 1..(b.smallPoolLen - 1) |->
                                IF j < i THEN b.smallPool[j] ELSE b.smallPool[j + 1]],
              !.smallPoolLen = b.smallPoolLen - 1]

b16_delFromSmallPool(b, x) ==
    IF b16_hasInSmallPool(b, x)
    THEN [b  |-> b16_delAt(b, CHOOSE i \in 1..b.smallPoolLen :
                                 /\ b.smallPool[i] = x
                                 /\ \A j \in 1..(i-1) : b.smallPool[j] # x),
          ok |-> TRUE]
    ELSE [b |-> b, ok |-> FALSE]

\* b16_del that gives the bitmap up when it clears its last bit
b16_del_demote(b, x) ==
    IF b.bits = <<>> THEN b16_delFromSmallPool(b, x)
    ELSE [b  |-> IF b.bits[1] \ {getWordNumBitMask(x)} = {}
                 THEN [b EXCEPT !.bits = <<>>]
                 ELSE [b EXCEPT !.bits = <<b.bits[1] \ {getWordNumBitMask(x)}>>],
          ok |-> getWordNumBitMask(x) \in b.bits[1]]

b16_del(b, x) ==
    IF b.bits = <<>> THEN b16_delFromSmallPool(b, x)
    ELSE [b  |-> [b EXCEPT !.bits = <<b.bits[1] \ {getWordNumBitMask(x)}>>],
          ok |-> getWordNumBitMask(x) \in b.bits[1]]

\* sort.Slice(b.smallPool[:b.smallPoolLen]) when it holds more than one value
b16_sortPool(b) ==
    IF b.smallPoolLen > 1
    THEN [b EXCEPT !.smallPool = SortAsc(SubSeq(b.smallPool, 1, b.smallPoolLen))]
    ELSE b

\* the set bits of a bitmap in the order of the scan of appendTo: words low
\* to high, in a word by trailing zeros; the value of bit <<w, k>> is w*64 | k
bitsToSeq(bits) ==
    LET before(p, q) == p[1] < q[1] \/ (p[1] = q[1] /\ p[2] < q[2])
        at(k) == CHOOSE p \in bits : Cardinality({q \in bits : before(q, p)}) = k - 1
    IN  [k \in 1..Cardinality(bits) |-> at(k)[1] * wordBits + at(k)[2]]

\* hi64 | uint64(v) with hi64 := uint64(hi)<<32 | uint64(hi16)<<16
MkValue(hi, hi16, v) == <<hi, hi16 * bitsPerBucket + v>>

\* bucket16.appendTo(dst[:0], hi, hi16): the leaf afterwards (its pool is
\* sorted in place) and the values appended
b16_appendValues(b, a, hi, hi16) ==
    [b |-> b, out |-> [i \in 1..Len(a) |-> MkValue(hi, hi16, a[i])]]

b16_appendPool(b, hi, hi16) ==
    b16_appendValues(b, SubSeq(b.smallPool, 1, b.smallPoolLen), hi, hi16)

b16_appendTo(b, hi, hi16) ==
    IF b.bits = <<>>
    THEN b16_appendPool(b16_sortPool(b), hi, hi16)
    ELSE b16_appendValues(b, bitsToSeq(b.bits[1]), hi, hi16)

\* the slow path loop of bucket16.intersect over buf[lo..hi]; of r the
\* fields b and n are the receiver and itemsCount
RECURSIVE b16_intersectSlow(_, _, _, _, _)
b16_intersectSlow(r, a, buf, lo, hi) ==
    IF lo > hi THEN r
    ELSE IF lo = hi
    THEN LET x16 == buf[lo][2] % bitsPerBucket
         IN  IF ~b16_has(a, x16)
             THEN [r EXCEPT !.b = b16_del(r.b, x16).b, !.n = r.n - 1]
             ELSE r
    ELSE LET r1 == b16_intersectSlow(r, a, buf, lo, Mid(lo, hi))
         IN  IF Evaluated(r1) THEN b16_intersectSlow(r1, a, buf, Mid(lo, hi) + 1, hi) ELSE r

\* The result of bucket16.intersect is [b, n, a, got, put]: the receiver,
\* the count returned, the operand, and the numbers of partBufPool.Get and
\* partBufPool.Put calls made.
\* the slow path once xbuf is taken from the pool and
\* buf = b.appendTo(buf[:0], 0, 0) is there: r = [b, out] is the receiver
\* and buf; a is only read (a.has)
b16_intersectBuf(r, a) ==
    b16_intersectSlow([b |-> r.b, n |-> Len(r.out), a |-> a, got |-> 1, put |-> 0],
                      a, r.out, 1, Len(r.out))

\* *xbuf = buf; partBufPool.Put(xbuf)
b16_intersectPut(r) == [r EXCEPT !.put = r.put + 1]

b16_intersect(b, a) ==
    IF a.bits # <<>> /\ b.bits # <<>>
    THEN [b |-> [b EXCEPT !.bits = <<b.bits[1] \cap a.bits[1]>>],
          n |-> Cardinality(b.bits[1] \cap a.bits[1]),
          a |-> a, got |-> 0, put |-> 0]
    ELSE b16_intersectPut(b16_intersectBuf(b16_appendTo(b, 0, 0), a))

b16_copyTo(b) ==
    [bits         |-> IF b.bits # <<>> THEN <<b.bits[1]>> ELSE <<>>,
     smallPoolLen |-> b.smallPoolLen,
     smallPool    |-> b.smallPool]

(***************************************************************************)
(* bucket32: the mid bucket.  Indexes and the hint are 0-based as in the   *)
(* code; element n of a slice is q[n + 1].                                 *)
(***************************************************************************)
\* the zero value bucket32{}
ZeroBucket32 == [hi |-> 0, b16his |-> <<>>, buckets |-> <<>>, hint |-> 0]

RECURSIVE binarySearchLoop(_, _, _, _)
binarySearchLoop(u16, x, i, j) ==
    IF i < j
    THEN LET h == (i + j) \div 2
         IN  IF h >= 0 /\ h < Len(u16) /\ u16[h + 1] < x
             THEN binarySearchLoop(u16, x, h + 1, j)
             ELSE binarySearchLoop(u16, x, i, h)
    ELSE i

binarySearch16(u16, x) == binarySearchLoop(u16, x, 0, Len(u16))

\* the leaf b.buckets[n] after a call on it that left r.b and returned r.ok
b32_setLeaf(b, n, r) == [b |-> [b EXCEPT !.buckets[n + 1] = r.b], ok |-> r.ok]

\* n < len(b.buckets) && b.buckets[n].add(lo)
b32_addAt(b, n, lo) ==
    IF n < Len(b.buckets)
    THEN b32_setLeaf(b, n, b16_add(b.buckets[n + 1], lo))
    ELSE [b |-> b, ok |-> FALSE]

\* n < len(b.buckets) && b.buckets[n].del(lo)
b32_delAt(b, n, lo) ==
    IF n < Len(b.buckets)
    THEN b32_setLeaf(b, n, b16_del(b.buckets[n + 1], lo))
    ELSE [b |-> b, ok |-> FALSE]

\* sort.Sort(b): b16his ascending, buckets carried along by Swap.  The keys
\* of a mid bucket are pairwise distinct (MidKeysDistinct), so the result
\* of the unstable sort is unique.
b32_arrange(b, keys) ==
    [b EXCEPT !.b16his  = keys,
              !.buckets = [i \in 1..Len(keys) |->
                              b.buckets[CHOOSE k \in 1..Len(b.b16his) :
                                            b.b16his[k] = keys[i]]]]

b32_sortSort(b) == b32_arrange(b, SortAsc(b.b16his))

\* bucket32.sort
b32_sort(b) == IF ~IsSortedSeq(b.b16his) THEN b32_sortSort(b) ELSE b

\* first 0-based index of hi in b16his (the linear scans), -1 when absent
b32_scan(b, hi) ==
    IF \E i \in 1..Len(b.b16his) : b.b16his[i] = hi
    THEN (CHOOSE i \in 1..Len(b.b16his) :
             /\ b.b16his[i] = hi
             /\ \A j \in 1..(i-1) : b.b16his[j] # hi) - 1
    ELSE -1

\* if len(b.buckets) > maxUnsortedBuckets { sort.Sort(b) }
\* b32_sortIfBig with the sort left out
b32_sortIfBig_never(b) == b

b32_sortIfBig(b) == IF Len(b.buckets) > maxUnsortedBuckets THEN b32_sortSort(b) ELSE b

b32_addAllocSmall(b, hi, lo) ==
    b32_sortIfBig([b EXCEPT !.b16his  = Append(b.b16his, hi),
                            !.buckets = Append(b.buckets, b16_add(ZeroBucket16, lo).b)])

b32_addAllocBig(b, hi, lo, n) ==
    IF n < 0 THEN b
    ELSE IF n >= Len(b.b16his)
    THEN [b EXCEPT !.b16his  = Append(b.b16his, hi),
                   !.buckets = Append(b.buckets, b16_add(ZeroBucket16, lo).b)]
    ELSE [b EXCEPT !.b16his  = SubSeq(b.b16his, 1, n) \o <<hi>>
                               \o SubSeq(b.b16his, n + 1, Len(b.b16his)),
                   !.buckets = SubSeq(b.buckets, 1, n)
                               \o <<b16_add(ZeroBucket16, lo).b>>
                               \o SubSeq(b.buckets, n + 1, Len(b.buckets))]

\* addSlow on a sorted bucket once n := binarySearch16(b.b16his, hi) is there
b32_addSlowSorted(b, hi, lo, n) ==
    IF n < 0 \/ n >= Len(b.b16his) \/ b.b16his[n + 1] # hi
    THEN [b |-> b32_addAllocBig([b EXCEPT !.hint = n], hi, lo, n), ok |-> TRUE]
    ELSE b32_addAt([b EXCEPT !.hint = n], n, lo)

\* addSlow on an unsorted bucket, i being the place the scan found hi at
b32_addSlowUnsorted(b, hi, lo, i) ==
    IF i >= 0
    THEN b32_addAt([b EXCEPT !.hint = i], i, lo)
    ELSE [b |-> b32_addAllocSmall(b, hi, lo), ok |-> TRUE]

b32_addSlow(b, hi, lo) ==
    IF Len(b.buckets) > maxUnsortedBuckets
    THEN b32_addSlowSorted(b, hi, lo, binarySearch16(b.b16his, hi))
    ELSE b32_addSlowUnsorted(b, hi, lo, b32_scan(b, hi))

\* b32_add with the fast path taken on the hint alone, the key at the hint
\* not compared
b32_add_trustHint(b, x) ==
    LET hi == x \div bitsPerBucket
        lo == x % bitsPerBucket
        n  == b.hint
    IN  IF n < Len(b.b16his)
        THEN b32_addAt(b, n, lo)
        ELSE b32_addSlow(b, hi, lo)

b32_add(b, x) ==
    LET hi == x \div bitsPerBucket
        lo == x % bitsPerBucket
        n  == b.hint
    IN  IF n < Len(b.b16his) /\ b.b16his[n + 1] = hi
        THEN b32_addAt(b, n, lo)
        ELSE b32_addSlow(b, hi, lo)

\* hasSlow once n := binarySearch16(b.b16his, hi) is there
b32_hasSlowAt(b, hi, lo, n) ==
    IF n < 0 \/ n >= Len(b.b16his) \/ b.b16his[n + 1] # hi
    THEN FALSE
    ELSE n < Len(b.buckets) /\ b16_has(b.buckets[n + 1], lo)

b32_hasSlow(b, hi, lo) == b32_hasSlowAt(b, hi, lo, binarySearch16(b.b16his, hi))

\* the scan of has, i being the place it found hi at
b32_hasAt(b, lo, i) == i >= 0 /\ i < Len(b.buckets) /\ b16_has(b.buckets[i + 1], lo)

b32_has(b, x) ==
    LET hi == x \div bitsPerBucket
        lo == x % bitsPerBucket
    IN  IF Len(b.buckets) > maxUnsortedBuckets
        THEN b32_hasSlow(b, hi, lo)
        ELSE b32_hasAt(b, lo, b32_scan(b, hi))

\* delSlow on a sorted bucket once n := binarySearch16(b.b16his, hi) is there
b32_delSlowSorted(b, hi, lo, n) ==
    IF n < 0 \/ n >= Len(b.b16his) \/ b.b16his[n + 1] # hi
    THEN [b |-> [b EXCEPT !.hint = n], ok |-> FALSE]
    ELSE b32_delAt([b EXCEPT !.hint = n], n, lo)

\* delSlow on an unsorted bucket, i being the place the scan found hi at
b32_delSlowUnsorted(b, hi, lo, i) ==
    IF i >= 0
    THEN b32_delAt([b EXCEPT !.hint = i], i, lo)
    ELSE [b |-> b, ok |-> FALSE]

b32_delSlow(b, hi, lo) ==
    IF Len(b.buckets) > maxUnsortedBuckets
    THEN b32_delSlowSorted(b, hi, lo, binarySearch16(b.b16his, hi))
    ELSE b32_delSlowUnsorted(b, hi, lo, b32_scan(b, hi))

b32_del(b, x) ==
    LET hi == x \div bitsPerBucket
        lo == x % bitsPerBucket
        n  == b.hint
    IN  IF n < Len(b.b16his) /\ b.b16his[n + 1] = hi
        THEN b32_delAt(b, n, lo)
        ELSE b32_delSlow(b, hi, lo)

\* bucket32.appendTo(dst): the bucket afterwards (sorted when it holds at
\* most maxUnsortedBuckets leaves, pools sorted) and the values appended
\* the loop of appendTo over the leaves lo..hi; r = [b, out]
\* dst = b.buckets[i].appendTo(dst, b.hi, hi16), q being what the leaf
\* returned
b32_appendLeaf(r, lo, q) ==
    [b |-> [r.b EXCEPT !.buckets[lo] = q.b], out |-> r.out \o q.out]

RECURSIVE b32_appendLeaves(_, _, _)
b32_appendLeaves(r, lo, hi) ==
    IF lo > hi THEN r
    ELSE IF lo = hi
    THEN b32_appendLeaf(r, lo, b16_appendTo(r.b.buckets[lo], r.b.hi, r.b.b16his[lo]))
    ELSE LET r1 == b32_appendLeaves(r, lo, Mid(lo, hi))
         IN  IF Evaluated(r1) THEN b32_appendLeaves(r1, Mid(lo, hi) + 1, hi) ELSE r

b32_appendTo(b) ==
    b32_appendLeaves(
        [b |-> IF Len(b.buckets) <= maxUnsortedBuckets THEN b32_sort(b) ELSE b,
         out |-> <<>>],
        1, Len(b.buckets))

\* bucket32.cloneShallow: new b16his and buckets arrays holding the same
\* keys and the same bucket16 values (bits pointers shared)
b32_cloneShallow(b) ==
    [hi      |-> b.hi,
     b16his  |-> [i \in 1..Len(b.b16his) |-> b.b16his[i]],
     buckets |-> [i \in 1..Len(b.buckets) |-> b.buckets[i]],
     hint    |-> b.hint]

b32_copyTo(b) ==
    [hi      |-> b.hi,
     b16his  |-> [i \in 1..Len(b.b16his) |-> b.b16his[i]],
     buckets |-> [i \in 1..Len(b.buckets) |-> b16_copyTo(b.buckets[i])],
     hint    |-> b.hint]

\* the loops of intersect that walk a slice of n keys from position i on are
\* given by where they stop: the first of the positions i..n-1 at which the
\* loop condition fails (stops is the set of these), and n when there is
\* none (positions 0-based)
FirstFrom(i, n, stops) ==
    IF stops # {} THEN CHOOSE k \in stops : \A m \in stops : k <= m
    ELSE IF i < n THEN n ELSE i

\* buckets[i..i1-1] = bucket16{}      (0-based)
b32_zeroRange(b, i, i1) ==
    [b EXCEPT !.buckets = [k \in 1..Len(b.buckets) |->
                              IF k > i /\ k <= i1 THEN ZeroBucket16 ELSE b.buckets[k]]]

\* where the first inner loop of bucket32.intersect stops
b32_skipBEnd(b, a, i, j) ==
    IF j < Len(a.b16his)
    THEN FirstFrom(i, Len(b.b16his),
                   {k \in i..(Len(b.b16his) - 1) : ~(b.b16his[k + 1] < a.b16his[j + 1])})
    ELSE i

\* The outer loop of bucket32.intersect.  Its state st = [b, a, i, j, n,
\* got, put, done, did, passes, stuck]: the receiver, the sorted shallow
\* copy of the operand, the two positions, itemsCount, the numbers of
\* partBufPool.Get and partBufPool.Put calls made, and done once the loop is
\* left; did, passes and stuck record the run of the loop: the places of b
\* whose leaf was intersected, the number of passes made, and whether some
\* pass neither left the loop nor moved i or j forward.  One pass is
\* b32_intersectPass: its first inner loop (b32_skipB), the test that
\* follows it (b32_intersectSkipped), its second inner loop (b32_skipA), the
\* tests that follow it (b32_intersectAt, j being where that loop stopped),
\* and the call of b.buckets[i].intersect (b32_intersectNext, r being what
\* the call left and returned).

\* for i < len(b.b16his) && j < len(a.b16his) && b.b16his[i] < a.b16his[j]
\*     { b.buckets[i] = bucket16{}; i++ }           (i, j 0-based)
b32_skipBTo(st, i1) == [st EXCEPT !.b = b32_zeroRange(st.b, st.i, i1), !.i = i1]

b32_skipB(st) == b32_skipBTo(st, b32_skipBEnd(st.b, st.a, st.i, st.j))

\* for j < len(a.b16his) && a.b16his[j] < b.b16his[i] { j++ }
b32_skipA(b, a, i, j) ==
    FirstFrom(j, Len(a.b16his),
              {k \in j..(Len(a.b16his) - 1) : ~(a.b16his[k + 1] < b.b16his[i + 1])})

\* for i < len(b.b16his) { b.buckets[i] = bucket16{}; i++ }
b32_zeroTail(b, i) == b32_zeroRange(b, i, Len(b.b16his))

\* b32_intersectNext with the i++ and the j++ left out
b32_intersectNext_noAdvance(st, j, r) ==
    [st EXCEPT !.b.buckets[st.i + 1] = r.b, !.a.buckets[j + 1] = r.a,
               !.j = j, !.n = st.n + r.n,
               !.got = st.got + r.got, !.put = st.put + r.put,
               !.did = st.did \cup {st.i + 1}]

b32_intersectNext(st, j, r) ==
    [st EXCEPT !.b.buckets[st.i + 1] = r.b, !.a.buckets[j + 1] = r.a,
               !.i = st.i + 1, !.j = j + 1, !.n = st.n + r.n,
               !.got = st.got + r.got, !.put = st.put + r.put,
               !.did = st.did \cup {st.i + 1}]

b32_intersectAt(st, j) ==
    IF j >= Len(st.a.b16his)
    THEN [st EXCEPT !.b = b32_zeroTail(st.b, st.i), !.i = Len(st.b.b16his), !.j = j,
                    !.done = TRUE]
    ELSE IF st.b.b16his[st.i + 1] = st.a.b16his[j + 1]
    THEN b32_intersectNext(st, j, b16_intersect(st.b.buckets[st.i + 1],
                                                st.a.buckets[j + 1]))
    ELSE [st EXCEPT !.j = j]

b32_intersectSkipped(st) ==
    IF st.i >= Len(st.b.b16his)
    THEN [st EXCEPT !.done = TRUE]
    ELSE b32_intersectAt(st, b32_skipA(st.b, st.a, st.i, st.j))

b32_intersectPass(st) == b32_intersectSkipped(b32_skipB(st))

\* the record of a pass that led from st to next
b32_intersectPassed(st, next) ==
    [next EXCEPT !.passes = st.passes + 1,
                 !.stuck = st.stuck \/ (~next.done /\ next.i <= st.i /\ next.j <= st.j)]

\* up to k passes of the outer loop, as the first half of them followed by
\* the rest
RECURSIVE b32_intersectLoop(_, _)
b32_intersectLoop(st, k) ==
    IF k <= 0 \/ st.done THEN st
    ELSE IF k = 1 THEN b32_intersectPassed(st, b32_intersectPass(st))
    ELSE b32_intersectLoop(b32_intersectLoop(st, k \div 2), k - k \div 2)

\* the state the outer loop starts in
b32_intersectStart(b, a) ==
    [b |-> b, a |-> a, i |-> 0, j |-> 0, n |-> 0, got |-> 0, put |-> 0, done |-> FALSE,
     did |-> {}, passes |-> 0, stuck |-> FALSE]

\* a pass that does not leave the loop moves i or j forward, so the loop is
\* left within len(b.b16his) + len(a.b16his) + 1 passes
b32_intersectFuel(b, a) == Len(b.b16his) + Len(a.b16his) + 1

b32_intersectFrom(b, a) ==
    b32_intersectLoop(b32_intersectStart(b, a), b32_intersectFuel(b, a))

\* bucket32.intersect: the state the loop is left in; its b is the receiver
\* afterwards, its n the count returned, its a the shallow copy of the
\* operand afterwards
b32_intersect(b, a) == b32_intersectFrom(b32_sort(b), b32_sort(b32_cloneShallow(a)))

\* b32_operandAfter with the arrays of the shallow copy being the arrays of
\* the operand itself (dst.b16his = b.b16his, dst.buckets = b.buckets)
b32_operandAfter_aliased(a, c) == [a EXCEPT !.b16his = c.b16his, !.buckets = c.buckets]

\* What a call that worked on the shallow copy c of the bucket32 a leaves of
\* a.  cloneShallow gives c new b16his and buckets arrays, so the order of
\* the arrays of a and the smallPool and smallPoolLen of its leaves are out
\* of reach of the call; the bits pointers are copied, so a leaf of a sees
\* in its bitmap what the call left in the bitmap of the leaf of c with the
\* same key.
b32_operandAfter(a, c) ==
    [a EXCEPT !.buckets =
        [k \in 1..Len(a.buckets) |->
            IF a.buckets[k].bits = <<>> THEN a.buckets[k]
            ELSE [a.buckets[k] EXCEPT !.bits =
                     c.buckets[CHOOSE m \in 1..Len(c.b16his) :
                                   c.b16his[m] = a.b16his[k]].bits]]]

(***************************************************************************)
(* Set                                                                     *)
(***************************************************************************)
\* the zero value Set{}
ZeroSet == [itemsCount |-> 0, buckets |-> <<>>]

\* the nil pointer (*Set)(nil), where a *Set is expected
NilSet == [nil |-> TRUE]

\* what a method leaves when it reads a field of a nil receiver: the
\* run-time panic "invalid memory address or nil pointer dereference"
Panicked == [panic |-> TRUE]

Set_Len(s) == IF s = NilSet THEN 0 ELSE s.itemsCount

\* 1-based index of the first bucket whose hi is hi (the scans of Add, Has
\* and Del), 0 when there is none
Set_scan(s, hi) ==
    IF \E i \in 1..Len(s.buckets) : s.buckets[i].hi = hi
    THEN CHOOSE i \in 1..Len(s.buckets) :
             /\ s.buckets[i].hi = hi
             /\ \A j \in 1..(i-1) : s.buckets[j].hi # hi
    ELSE 0

\* addAlloc: addBucket32, b32.hi = hi, b32.add(lo), itemsCount++
Set_addAlloc(s, hi, lo) ==
    [itemsCount |-> s.itemsCount + 1,
     buckets    |-> Append(s.buckets, b32_add([ZeroBucket32 EXCEPT !.hi = hi], lo).b)]

\* the set after s.buckets[i].add(lo) or .del(lo) left r.b and returned
\* r.ok: itemsCount moves by d when it returned true
Set_setBucket(s, i, r, d) ==
    [itemsCount |-> IF r.ok THEN s.itemsCount + d ELSE s.itemsCount,
     buckets    |-> [s.buckets EXCEPT ![i] = r.b]]

\* Add, Has and Del once the scan for hi is done, i being the place it
\* found hi at
Set_addAt(s, hi, lo, i) ==
    IF i > 0 THEN Set_setBucket(s, i, b32_add(s.buckets[i], lo), 1)
    ELSE Set_addAlloc(s, hi, lo)

Set_hasAt(s, lo, i) == i > 0 /\ b32_has(s.buckets[i], lo)

Set_delAt(s, lo, i) ==
    IF i > 0 THEN Set_setBucket(s, i, b32_del(s.buckets[i], lo), -1)
    ELSE s

\* x is the pair <<hi, lo>> of uint32(x >> 32) and uint32(x)
\* Add has no test of s == nil: its first read of s.buckets panics then
Set_Add(s, x) ==
    IF s = NilSet THEN Panicked ELSE Set_addAt(s, x[1], x[2], Set_scan(s, x[1]))

Set_Has(s, x) == s # NilSet /\ Set_hasAt(s, x[2], Set_scan(s, x[1]))

Set_Del(s, x) == Set_delAt(s, x[2], Set_scan(s, x[1]))

\* bucket32Sorter.Less over a whole slice: sort.IsSorted(&s.buckets)
Set_isSorted(buckets) ==
    \A i \in 2..Len(buckets) : ~(buckets[i].hi < buckets[i-1].hi)

\* Set.sort: sort.Sort(&s.buckets) when the slice is not sorted.  sort.Sort
\* is not stable, and buckets zeroed by Intersect all carry hi = 0, so the
\* order it leaves among entries of equal hi is any order: the outcomes are
\* the permutations p (new position -> old position) that sort by hi.
Set_sortPerms(buckets) ==
    LET n == Len(buckets)
    IN  IF Set_isSorted(buckets) THEN {[i \in 1..n |-> i]}
        ELSE {p \in [1..n -> 1..n] :
                 /\ \A i, j \in 1..n : i # j => p[i] # p[j]
                 /\ \A i \in 2..n : buckets[p[i-1]].hi <= buckets[p[i]].hi}

Permute(buckets, p) == [i \in 1..Len(buckets) |-> buckets[p[i]]]

\* for i := range s.buckets { dst = s.buckets[i].appendTo(dst) }
RECURSIVE Set_appendBuckets(_, _, _)
RECURSIVE Set_appendBucket(_, _, _, _)
Set_appendBuckets(s, i, out) ==
    IF i > Len(s.buckets) THEN [s |-> s, out |-> out]
    ELSE Set_appendBucket(s, i, out, b32_appendTo(s.buckets[i]))

\* the loop once s.buckets[i].appendTo(dst) left r.b and returned r.out
Set_appendBucket(s, i, out, r) ==
    IF Evaluated(r)
    THEN Set_appendBuckets([s EXCEPT !.buckets[i] = r.b], i + 1, out \o r.out)
    ELSE [s |-> s, out |-> out]

\* Set.AppendTo(dst) under the outcome p of s.sort(): the set afterwards and
\* the slice returned
\* Set_AppendTo with "return nil" for a nil receiver
Set_AppendTo_nilToNil(s, dst, p) ==
    IF s = NilSet THEN [s |-> s, out |-> <<>>]
    ELSE Set_appendBuckets([s EXCEPT !.buckets = Permute(s.buckets, p)], 1, dst)

Set_AppendTo(s, dst, p) ==
    IF s = NilSet THEN [s |-> s, out |-> dst]
    ELSE Set_appendBuckets([s EXCEPT !.buckets = Permute(s.buckets, p)], 1, dst)

Set_Clone(s) ==
    IF s = NilSet \/ s.itemsCount = 0 THEN ZeroSet
    ELSE [itemsCount |-> s.itemsCount,
          buckets    |-> [i \in 1..Len(s.buckets) |-> b32_copyTo(s.buckets[i])]]

\* Set.cloneShallow: a new top-level array holding the same bucket32 values
Set_cloneShallow(s) ==
    [itemsCount |-> s.itemsCount,
     buckets    |-> [i \in 1..Len(s.buckets) |-> s.buckets[i]]]

(***************************************************************************)
(* Set.ForEach and its callers.  st = [s, a, same, equal, stop, got, put,  *)
(* calls, stopAt]: s is the set the callback works on, a the set iterated, *)
(* same tells that both are one object (every write to one is a write to   *)
(* the other), equal and stop are the callback's variable and its stop     *)
(* signal, got and put the numbers of partBufPool.Get and partBufPool.Put  *)
(* calls made.  calls and stopAt belong to the callback of a caller from   *)
(* outside the package ("visit"): the parts it was called with so far, and *)
(* the number of the call at which it returns false (0: at none).          *)
(***************************************************************************)
WriteS(st, s1) == IF st.same THEN [st EXCEPT !.s = s1, !.a = s1] ELSE [st EXCEPT !.s = s1]
WriteA(st, a1) == IF st.same THEN [st EXCEPT !.s = a1, !.a = a1] ELSE [st EXCEPT !.a = a1]

\* the callback f(part) of Union ("add"), Subtract ("del") and Equal ("has")
\* over part[lo..hi]; once stop is set the rest of the range is not visited
RECURSIVE ForEach_f(_, _, _, _, _)
ForEach_f(st, kind, part, lo, hi) ==
    IF lo > hi \/ st.stop THEN st
    ELSE IF lo = hi
    THEN IF kind = "add" THEN WriteS(st, Set_Add(st.s, part[lo]))
         ELSE IF kind = "del" THEN WriteS(st, Set_Del(st.s, part[lo]))
         ELSE IF ~Set_Has(st.s, part[lo]) THEN [st EXCEPT !.equal = FALSE, !.stop = TRUE]
         ELSE st
    ELSE LET st1 == ForEach_f(st, kind, part, lo, Mid(lo, hi))
         IN  IF Evaluated(st1) THEN ForEach_f(st1, kind, part, Mid(lo, hi) + 1, hi) ELSE st

\* the callback of a caller from outside the package: it keeps the part and
\* returns false at its call number stopAt
ForEach_visit(st, part) ==
    [st EXCEPT !.calls = Append(st.calls, part),
               !.stop  = (Len(st.calls) + 1 = st.stopAt)]

\* bucket32.forEach on a.buckets[i]: leaves lo..hi, hi = len(b.buckets) when
\* the loop started
\* partBuf = b.buckets[i].appendTo(partBuf[:0], b.hi, b.b16his[i]); f(partBuf)
\* for leaf lo of a.buckets[i], r being what appendTo left and returned
b32_forEachLeaf(st, kind, i, lo, r) ==
    IF kind = "visit"
    THEN ForEach_visit(WriteA(st, [st.a EXCEPT !.buckets[i].buckets[lo] = r.b]), r.out)
    ELSE ForEach_f(WriteA(st, [st.a EXCEPT !.buckets[i].buckets[lo] = r.b]),
                   kind, r.out, 1, Len(r.out))

RECURSIVE b32_forEach(_, _, _, _, _)
b32_forEach(st, kind, i, lo, hi) ==
    IF lo > hi \/ st.stop THEN st
    ELSE IF lo = hi
    THEN b32_forEachLeaf(st, kind, i, lo,
                         b16_appendTo(st.a.buckets[i].buckets[lo], st.a.buckets[i].hi,
                                      st.a.buckets[i].b16his[lo]))
    ELSE LET st1 == b32_forEach(st, kind, i, lo, Mid(lo, hi))
         IN  IF Evaluated(st1) THEN b32_forEach(st1, kind, i, Mid(lo, hi) + 1, hi) ELSE st

\* xbuf := partBufPool.Get().(*[]uint64), the first statement of forEach
b32_forEachGet(st) == [st EXCEPT !.got = st.got + 1]

\* *xbuf = buf; partBufPool.Put(xbuf); return true: the statements after the
\* loop of forEach, which "return false" inside the loop does not reach
b32_forEachPut(st) == IF st.stop THEN st ELSE [st EXCEPT !.put = st.put + 1]

\* s.buckets[i].forEach(f)
b32_forEachCall(st, kind, i) ==
    b32_forEachPut(b32_forEach(b32_forEachGet(st), kind, i, 1, Len(st.a.buckets[i].buckets)))

\* Set.ForEach on a: buckets i..n, n = len(a.buckets) when the loop started
RECURSIVE Set_ForEach(_, _, _, _)
Set_ForEach(st, kind, i, n) ==
    IF i > n \/ st.stop THEN st
    ELSE Set_ForEach(b32_forEachCall(st, kind, i), kind, i + 1, n)

\* Set.ForEach on a, from its first statement on
Set_ForEachAll(st, kind) ==
    IF st.a = NilSet THEN st ELSE Set_ForEach(st, kind, 1, Len(st.a.buckets))

ForEachStart(s, a, same) ==
    [s |-> s, a |-> a, same |-> same, equal |-> TRUE, stop |-> FALSE, got |-> 0,
     put |-> 0, calls |-> <<>>, stopAt |-> 0]

\* what a caller of ForEach is left with: the two sets, the callback's
\* variable, and the numbers of partBufPool.Get and partBufPool.Put calls
ForEachEnd(st) ==
    [s |-> st.s, a |-> st.a, equal |-> st.equal, got |-> st.got, put |-> st.put,
     calls |-> st.calls]

\* the same for a call that returned before it reached ForEach
NoForEach(s, a, equal) ==
    [s |-> s, a |-> a, equal |-> equal, got |-> 0, put |-> 0, calls |-> <<>>]

\* Set.union(a, mayOwn): the receiver and the operand afterwards
Set_union(s, a, same, mayOwn) ==
    LET swap == mayOwn /\ Set_Len(s) < Set_Len(a)
        s1   == IF swap THEN a ELSE s
        a1   == IF swap THEN s ELSE a
    IN  IF Set_Len(a1) = 0 THEN NoForEach(s1, a1, TRUE)
        ELSE IF Set_Len(s1) = 0
        THEN IF same THEN NoForEach(Set_Clone(a1), Set_Clone(a1), TRUE)
                     ELSE NoForEach(Set_Clone(a1), a1, TRUE)
        ELSE ForEachEnd(Set_ForEachAll(ForEachStart(s1, a1, same), "add"))

Set_Union(s, a, same) == Set_union(s, a, same, FALSE)

Set_UnionMayOwn(s, a, same) == Set_union(s, a, same, TRUE)

Set_Subtract(s, a, same) ==
    IF Set_Len(s) = 0 \/ Set_Len(a) = 0 THEN NoForEach(s, a, TRUE)
    ELSE ForEachEnd(Set_ForEachAll(ForEachStart(s, a, same), "del"))

\* Set.Equal: the value returned and the operand afterwards (ForEach sorts
\* the pools of the leaves it visits)
Set_Equal(s, a, same) ==
    IF Set_Len(s) # Set_Len(a) THEN NoForEach(s, a, FALSE)
    ELSE ForEachEnd(Set_ForEachAll(ForEachStart(s, a, same), "has"))

(***************************************************************************)
(* Set.Intersect.  sb is s.buckets and ab the array of the shallow copy of *)
(* a, both after their sort.  When s and a are one object, the bucket32    *)
(* values of ab share their b16his and buckets arrays with the entries of  *)
(* sb they were copied from: tw[j] is the position in sb of the entry      *)
(* ab[j] was copied from (0 when a is another object), and twdone is the   *)
(* set of positions of sb already intersected in place, whose arrays ab[j] *)
(* therefore sees as they are now.                                         *)
(***************************************************************************)
Set_operandAt(sb, ab, tw, twdone, j) ==
    IF tw[j] \in twdone
    THEN [ab[j] EXCEPT !.b16his = sb[tw[j]].b16his, !.buckets = sb[tw[j]].buckets]
    ELSE ab[j]

\* s.buckets[i..i1-1] = bucket32{}      (0-based)
Set_zeroRange(sb, i, i1) ==
    [k \in 1..Len(sb) |-> IF k > i /\ k <= i1 THEN ZeroBucket32 ELSE sb[k]]

\* where the first inner loop of Set.Intersect stops
Set_skipSEnd(sb, ab, i, j) ==
    IF j < Len(ab)
    THEN FirstFrom(i, Len(sb), {k \in i..(Len(sb) - 1) : ~(sb[k + 1].hi < ab[j + 1].hi)})
    ELSE i

\* The outer loop of Set.Intersect.  Its state st = [sb, ab, twdone, i, j,
\* n, got, put, done, loop]: s.buckets, the array of the shallow copy of a,
\* the positions of sb intersected in place so far, the two positions,
\* itemsCount, the numbers of partBufPool.Get and partBufPool.Put calls
\* made, and done once the loop is left; loop records the run of this loop
\* and of the loops of the bucket32.intersect calls it made: the number of
\* passes, whether some pass neither left its loop nor moved i or j forward,
\* whether every loop of bucket32.intersect was left, and whether each of
\* them had, when left, passed every entry of its receiver and zeroed or
\* intersected it.  One pass is Set_intersectPass: its
\* first inner loop (Set_skipS), the test that follows it
\* (Set_intersectSkipped), its second inner loop (Set_skipA), the tests that
\* follow it (Set_intersectAt, j being where that loop stopped), and the
\* call of s.buckets[i].intersect (Set_intersectNext, a being the operand
\* passed and r what the call left and returned).

\* for i < len(s.buckets) && j < len(a.buckets) && s.buckets[i].hi < a.buckets[j].hi
\*     { s.buckets[i] = bucket32{}; i++ }           (i, j 0-based)
Set_skipSTo(st, i1) == [st EXCEPT !.sb = Set_zeroRange(st.sb, st.i, i1), !.i = i1]

Set_skipS(st) == Set_skipSTo(st, Set_skipSEnd(st.sb, st.ab, st.i, st.j))

\* for j < len(a.buckets) && a.buckets[j].hi < s.buckets[i].hi { j++ }
Set_skipA(sb, ab, i, j) ==
    FirstFrom(j, Len(ab), {k \in j..(Len(ab) - 1) : ~(ab[k + 1].hi < sb[i + 1].hi)})

\* for i < len(s.buckets) { s.buckets[i] = bucket32{}; i++ }
Set_zeroTail(sb, i) == Set_zeroRange(sb, i, Len(sb))

\* the loop of bucket32.intersect was left in r with every entry of the
\* receiver passed, and zeroed or intersected
b32_intersectCovered(r) ==
    /\ r.i = Len(r.b.b16his)
    /\ \A k \in 1..Len(r.b.buckets) : r.b.buckets[k] = ZeroBucket16 \/ k \in r.did

Set_intersectNext(st, j, a, r) ==
    [st EXCEPT !.sb[st.i + 1] = r.b, !.ab[j + 1] = b32_operandAfter(a, r.a),
               !.twdone = st.twdone \cup {st.i + 1},
               !.i = st.i + 1, !.j = j + 1, !.n = st.n + r.n,
               !.got = st.got + r.got, !.put = st.put + r.put,
               !.loop.passes = st.loop.passes + r.passes,
               !.loop.stuck = st.loop.stuck \/ r.stuck,
               !.loop.left = st.loop.left /\ r.done,
               !.loop.covered = st.loop.covered /\ b32_intersectCovered(r)]

\* itemsCount += s.buckets[i].intersect(&a.buckets[j]), a being a.buckets[j]
Set_intersectCall(st, j, a) ==
    Set_intersectNext(st, j, a, b32_intersect(st.sb[st.i + 1], a))

Set_intersectAt(st, tw, j) ==
    IF j >= Len(st.ab)
    THEN [st EXCEPT !.sb = Set_zeroTail(st.sb, st.i), !.i = Len(st.sb), !.j = j,
                    !.done = TRUE]
    ELSE IF st.sb[st.i + 1].hi = st.ab[j + 1].hi
    THEN Set_intersectCall(st, j, Set_operandAt(st.sb, st.ab, tw, st.twdone, j + 1))
    ELSE [st EXCEPT !.j = j]

Set_intersectSkipped(st, tw) ==
    IF st.i >= Len(st.sb)
    THEN [st EXCEPT !.done = TRUE]
    ELSE Set_intersectAt(st, tw, Set_skipA(st.sb, st.ab, st.i, st.j))

Set_intersectPass(st, tw) == Set_intersectSkipped(Set_skipS(st), tw)

\* the record of a pass that led from st to next
Set_intersectPassed(st, next) ==
    [next EXCEPT !.loop.passes = next.loop.passes + 1,
                 !.loop.stuck = next.loop.stuck
                                \/ (~next.done /\ next.i <= st.i /\ next.j <= st.j)]

\* up to k passes of the outer loop, as the first half of them followed by
\* the rest
RECURSIVE Set_intersectLoop(_, _, _)
Set_intersectLoop(st, tw, k) ==
    IF k <= 0 \/ st.done THEN st
    ELSE IF k = 1 THEN Set_intersectPassed(st, Set_intersectPass(st, tw))
    ELSE Set_intersectLoop(Set_intersectLoop(st, tw, k \div 2), tw, k - k \div 2)

\* the record of a call that ran no merge-join loop
NoLoop == [passes |-> 0, stuck |-> FALSE, left |-> TRUE, covered |-> TRUE]

\* the state the outer loop starts in
Set_intersectStart(sb, ab) ==
    [sb |-> sb, ab |-> ab, twdone |-> {}, i |-> 0, j |-> 0, n |-> 0, got |-> 0,
     put |-> 0, done |-> FALSE, loop |-> NoLoop]

\* a pass that does not leave the loop moves i or j forward, so the loop is
\* left within len(s.buckets) + len(a.buckets) + 1 passes
Set_intersectFuel(sb, ab) == Len(sb) + Len(ab) + 1

Set_intersectFrom(sb, ab, tw) ==
    Set_intersectLoop(Set_intersectStart(sb, ab), tw, Set_intersectFuel(sb, ab))

\* tw for the outcomes ps and pa of the two sorts
Set_twins(same, ps, pa) ==
    [j \in 1..Len(pa) |-> IF same THEN CHOOSE i \in 1..Len(ps) : ps[i] = pa[j] ELSE 0]

\* s.itemsCount = itemsCount when the loop is over: the receiver then
Set_intersectSet(st) == [itemsCount |-> st.n, buckets |-> st.sb]

\* What Intersect leaves of the operand a, a being another object than s:
\* ab is the array of its shallow copy when the loop is over and pa the
\* outcome of the sort of that copy (ab[m] was copied from a.buckets[pa[m]]).
\* cloneShallow gives the copy a new array of bucket32 values, so the order
\* of a.buckets, and hi and hint of its entries, are out of reach of the
\* call; the b16his and buckets slices of an entry are copied as slices, so
\* the entry of a sees in them what the call left in the arrays of ab[m].
Set_operandAfter(a, ab, pa) ==
    [a EXCEPT !.buckets =
        [k \in 1..Len(a.buckets) |->
            [a.buckets[k] EXCEPT
                !.b16his  = ab[CHOOSE m \in 1..Len(pa) : pa[m] = k].b16his,
                !.buckets = ab[CHOOSE m \in 1..Len(pa) : pa[m] = k].buckets]]]

\* what the caller of Intersect is left with: the receiver, the operand
\* (the receiver itself when both are one object), and the numbers of
\* partBufPool.Get and partBufPool.Put calls made
Set_intersectEnd(st, a, same, pa) ==
    [s   |-> Set_intersectSet(st),
     a   |-> IF same THEN Set_intersectSet(st) ELSE Set_operandAfter(a, st.ab, pa),
     got |-> st.got, put |-> st.put,
     loop |-> [st.loop EXCEPT !.left = st.loop.left /\ st.done,
                              !.covered = /\ st.loop.covered
                                          /\ st.i = Len(st.sb)
                                          /\ \A k \in 1..Len(st.sb) :
                                                st.sb[k] = ZeroBucket32 \/ k \in st.twdone]]

\* Set.Intersect(a) under the outcomes ps of s.sort() and pa of the sort of
\* the shallow copy of a
Set_Intersect(s, a, same, ps, pa) ==
    IF Set_Len(s) = 0 \/ Set_Len(a) = 0
    THEN [s |-> ZeroSet, a |-> IF same THEN ZeroSet ELSE a, got |-> 0, put |-> 0,
          loop |-> NoLoop]
    ELSE Set_intersectEnd(
             Set_intersectFrom(Permute(s.buckets, ps),
                               Permute(Set_cloneShallow(a).buckets, pa),
                               Set_twins(same, ps, pa)),
             a, same, pa)

(***************************************************************************)
(* The state machine: two Set objects, "s" and "a", and a record of the    *)
(* last call (its name, receiver, operand, argument, the sets before it    *)
(* and what it returned).                                                  *)
(***************************************************************************)
VARIABLES sets, last, steps

vars == <<sets, last, steps>>

MaxSteps == 2

Objs == {"s", "a"}

\* the uint64 arguments of Add and Del and of the seeds: pairs <<hi, lo>>
Val(hi, hi16, lo16) == <<hi, hi16 * bitsPerBucket + lo16>>

\* s.Add(xs[lo]); ...; s.Add(xs[hi])
RECURSIVE AddAll(_, _, _, _)
AddAll(s, xs, lo, hi) ==
    IF lo > hi THEN s
    ELSE IF lo = hi THEN Set_Add(s, xs[lo])
    ELSE LET s1 == AddAll(s, xs, lo, Mid(lo, hi))
         IN  IF Evaluated(s1) THEN AddAll(s1, xs, Mid(lo, hi) + 1, hi) ELSE s

\* sets built by Add calls on a new Set: a full small pool, a mid bucket
\* just above maxUnsortedBuckets, and small sets over three prefixes
SeedFullPool == AddAll(ZeroSet, [i \in 1..smallPoolCap |-> Val(0, 0, i - 1)], 1, smallPoolCap)
SeedSortedMid == AddAll(ZeroSet, [i \in 1..(maxUnsortedBuckets + 1) |->
                                     Val(0, 2 * (maxUnsortedBuckets + 1 - i), 0)],
                        1, maxUnsortedBuckets + 1)
\* a mid bucket that holds maxUnsortedBuckets leaves, not sorted: the keys
\* 64, 62, ..., 2
SeedMid32 == AddAll(ZeroSet, [i \in 1..maxUnsortedBuckets |->
                                 Val(0, 2 * (maxUnsortedBuckets + 1 - i), 0)],
                    1, maxUnsortedBuckets)
SeedThree == AddAll(ZeroSet, <<Val(1, 0, 0), Val(2, 0, 0), Val(0, 0, 0)>>, 1, 3)
SeedTwo == AddAll(ZeroSet, <<Val(0, 0, 0), Val(1, 0, 0)>>, 1, 2)

\* SeedThree after SeedThree.Intersect(SeedTwo): the bucket of prefix 2 is
\* zeroed in place (s.sort() has one outcome here, the prefixes differ)
Intersected(s, a) ==
    Set_Intersect(s, a, FALSE, CHOOSE p \in Set_sortPerms(s.buckets) : TRUE,
                  CHOOSE p \in Set_sortPerms(a.buckets) : TRUE).s

SeedIntersected == Intersected(SeedThree, SeedTwo)

\* a leaf in bitmap mode that holds one value: the full pool after the Add of
\* a 57th value, intersected with a set that holds the value 0 of them
SeedBitmapOne == Intersected(Set_Add(SeedFullPool, Val(0, 0, smallPoolCap)), SeedTwo)

Seeds ==
    <<ZeroSet, SeedFullPool, SeedSortedMid, SeedThree, SeedTwo, SeedIntersected,
      SeedMid32, SeedBitmapOne>>

\* arguments of Add and Del
Values == {Val(0, 0, 0), Val(0, 0, smallPoolCap), Val(0, 3, 0), Val(1, 0, 0), Val(2, 0, 1)}

\* the values membership is observed on
Universe ==
    Values \cup {Val(0, 0, i) : i \in 0..smallPoolCap}
           \cup {Val(0, 2 * i, 0) : i \in 0..maxUnsortedBuckets}
           \cup {Val(2, 0, 0)}

\* no call made yet.  Of a call: got and put are the numbers of
\* partBufPool.Get and partBufPool.Put calls made during it, calls the parts
\* its callback was called with, stopAt the number of the call at which the
\* callback returned false (0: at none), num the number Len returned,
\* panic tells that the call panicked, loop how its merge-join loops ran
NoCall == [op |-> "none", recv |-> "s", arg |-> "s", x |-> <<0, 0>>,
           pre |-> [o \in Objs |-> ZeroSet], dst |-> <<>>, out |-> <<>>, ret |-> FALSE,
           got |-> 0, put |-> 0, calls |-> <<>>, stopAt |-> 0, num |-> 0,
           panic |-> FALSE, loop |-> NoLoop]

\* the two objects are interchangeable, so the seeds are taken in one order
InitSets(seeds) ==
    \E i, j \in 1..Len(seeds) : i <= j /\ sets = [s |-> seeds[i], a |-> seeds[j]]

Init ==
    /\ InitSets(Seeds)
    /\ last = NoCall
    /\ steps = 0

Call(op, o, p, x, out, ret) ==
    [op |-> op, recv |-> o, arg |-> p, x |-> x, pre |-> sets, dst |-> <<>>,
     out |-> out, ret |-> ret, got |-> 0, put |-> 0, calls |-> <<>>, stopAt |-> 0,
     num |-> 0, panic |-> FALSE, loop |-> NoLoop]

\* the same for a call that left r.got and r.put
CallPool(op, o, p, ret, r) ==
    [Call(op, o, p, <<0, 0>>, <<>>, ret) EXCEPT !.got = r.got, !.put = r.put]

\* the call op of receiver o with operand p left the sets r.s and r.a
Done(op, o, p, ret, r) ==
    /\ sets' = [q \in Objs |-> IF q = o THEN r.s ELSE IF q = p THEN r.a ELSE sets[q]]
    /\ last' = CallPool(op, o, p, ret, r)

Add(o, x) ==
    /\ steps < MaxSteps
    /\ sets' = [sets EXCEPT ![o] = Set_Add(sets[o], x)]
    /\ last' = Call("Add", o, o, x, <<>>, FALSE)
    /\ steps' = steps + 1

Del(o, x) ==
    /\ steps < MaxSteps
    /\ sets' = [sets EXCEPT ![o] = Set_Del(sets[o], x)]
    /\ last' = Call("Del", o, o, x, <<>>, FALSE)
    /\ steps' = steps + 1

\* the slices passed as dst to AppendTo
Dsts == {<<>>, <<Val(0, 0, 7)>>}

\* the call o.AppendTo(dst) left the set r.s and returned r.out
AppendToDone(o, dst, r) ==
    /\ sets' = [sets EXCEPT ![o] = r.s]
    /\ last' = [Call("AppendTo", o, o, <<0, 0>>, r.out, FALSE) EXCEPT !.dst = dst]

AppendTo(o, dst) ==
    /\ steps < MaxSteps
    /\ \E p \in Set_sortPerms(sets[o].buckets) :
          AppendToDone(o, dst, Set_AppendTo(sets[o], dst, p))
    /\ steps' = steps + 1

Union(o, p) ==
    /\ steps < MaxSteps
    /\ Done("Union", o, p, FALSE, Set_Union(sets[o], sets[p], o = p))
    /\ steps' = steps + 1

UnionMayOwn(o, p) ==
    /\ steps < MaxSteps
    /\ Done("UnionMayOwn", o, p, FALSE, Set_UnionMayOwn(sets[o], sets[p], o = p))
    /\ steps' = steps + 1

\* the call o.Intersect(p) left the sets r.s and r.a and ran its loops as
\* r.loop tells
IntersectDone(o, p, r) ==
    /\ sets' = [q \in Objs |-> IF q = o THEN r.s ELSE IF q = p THEN r.a ELSE sets[q]]
    /\ last' = [CallPool("Intersect", o, p, FALSE, r) EXCEPT !.loop = r.loop]

Intersect(o, p) ==
    /\ steps < MaxSteps
    /\ \E ps \in Set_sortPerms(sets[o].buckets), pa \in Set_sortPerms(sets[p].buckets) :
          IntersectDone(o, p, Set_Intersect(sets[o], sets[p], o = p, ps, pa))
    /\ steps' = steps + 1

Subtract(o, p) ==
    /\ steps < MaxSteps
    /\ Done("Subtract", o, p, FALSE, Set_Subtract(sets[o], sets[p], o = p))
    /\ steps' = steps + 1

\* c = o.Clone(), c taking the place of the other object p
Clone(o, p) ==
    /\ steps < MaxSteps
    /\ o # p
    /\ sets' = [sets EXCEPT ![p] = Set_Clone(sets[o])]
    /\ last' = Call("Clone", o, p, <<0, 0>>, <<>>, FALSE)
    /\ steps' = steps + 1

\* the call o.Equal(p) left the sets r.s and r.a and returned r.equal
EqualDone(o, p, r) == Done("Equal", o, p, r.equal, r)

Equal(o, p) ==
    /\ steps < MaxSteps
    /\ EqualDone(o, p, Set_Equal(sets[o], sets[p], o = p))
    /\ steps' = steps + 1

\* the numbers of the call at which the callback passed to ForEach returns
\* false (0: it returns true always)
StopAts == {0, 1, 2}

\* the call o.ForEach(f) left the state st
ForEachDone(o, k, st) ==
    /\ sets' = [sets EXCEPT ![o] = st.a]
    /\ last' = [CallPool("ForEach", o, o, FALSE, st) EXCEPT !.calls = st.calls,
                                                             !.stopAt = k]

\* o.ForEach(f), f keeping the parts it is given and returning false at its
\* call number k
ForEach(o, k) ==
    /\ steps < MaxSteps
    /\ ForEachDone(o, k, Set_ForEachAll([ForEachStart(sets[o], sets[o], TRUE)
                                            EXCEPT !.stopAt = k], "visit"))
    /\ steps' = steps + 1

(***************************************************************************)
(* Calls on a nil receiver (var n *Set; n.Len(), ...), recorded under the   *)
(* names "nil.Len", ...  They leave the sets as they are; after a panic no *)
(* further call is made.                                                   *)
(***************************************************************************)
NilCall(op, x) == Call(op, "s", "s", x, <<>>, FALSE)

NilLen ==
    /\ steps < MaxSteps
    /\ last' = [NilCall("nil.Len", <<0, 0>>) EXCEPT !.num = Set_Len(NilSet)]
    /\ steps' = steps + 1
    /\ UNCHANGED sets

\* the arguments of Has and Add on a nil receiver
NilValues == {Val(0, 0, 0), Val(2, 0, 1)}

NilHas(x) ==
    /\ steps < MaxSteps
    /\ last' = [NilCall("nil.Has", x) EXCEPT !.ret = Set_Has(NilSet, x)]
    /\ steps' = steps + 1
    /\ UNCHANGED sets

NilForEach(k) ==
    /\ steps < MaxSteps
    /\ last' = [NilCall("nil.ForEach", <<0, 0>>) EXCEPT
                   !.stopAt = k,
                   !.calls = Set_ForEachAll([ForEachStart(NilSet, NilSet, TRUE)
                                                EXCEPT !.stopAt = k], "visit").calls]
    /\ steps' = steps + 1
    /\ UNCHANGED sets

NilAppendTo(dst) ==
    /\ steps < MaxSteps
    /\ last' = [NilCall("nil.AppendTo", <<0, 0>>) EXCEPT
                   !.dst = dst, !.out = Set_AppendTo(NilSet, dst, <<>>).out]
    /\ steps' = steps + 1
    /\ UNCHANGED sets

NilAdd(x) ==
    /\ last' = [NilCall("nil.Add", x) EXCEPT !.panic = (Set_Add(NilSet, x) = Panicked)]
    /\ steps < MaxSteps
    /\ steps' = IF Set_Add(NilSet, x) = Panicked THEN MaxSteps ELSE steps + 1
    /\ UNCHANGED sets

Next ==
    \/ \E o \in Objs, x \in Values : Add(o, x)
    \/ \E o \in Objs, x \in Values : Del(o, x)
    \/ \E o \in Objs, dst \in Dsts : AppendTo(o, dst)
    \/ \E o, p \in Objs : Union(o, p)
    \/ \E o, p \in Objs : UnionMayOwn(o, p)
    \/ \E o, p \in Objs : Intersect(o, p)
    \/ \E o, p \in Objs : Subtract(o, p)
    \/ \E o, p \in Objs : Clone(o, p)
    \/ \E o, p \in Objs : Equal(o, p)
    \/ \E o \in Objs, k \in StopAts : ForEach(o, k)
    \/ NilLen
    \/ \E x \in NilValues : NilHas(x)
    \/ \E k \in {0, 1} : NilForEach(k)
    \/ \E dst \in Dsts : NilAppendTo(dst)
    \/ \E x \in NilValues : NilAdd(x)

Spec == Init /\ [][Next]_vars

(***************************************************************************)
(* Observations                                                            *)
(***************************************************************************)
Members(s) == {x \in Universe : Set_Has(s, x)}

\* the order of uint64 on pairs <<hi, lo>>
Below(x, y) == x[1] < y[1] \/ (x[1] = y[1] /\ x[2] < y[2])

StrictlyAscending(q) == \A i \in 2..Len(q) : Below(q[i-1], q[i])

\* the leaf Add, Has and Del of x work on: the leaf of key x[2] >> 16 in the
\* first entry of s.buckets whose hi is x[1]; HasLeaf tells whether there is
\* one
MidKey(x) == x[2] \div bitsPerBucket
Low(x) == x[2] % bitsPerBucket

HasLeaf(s, x) ==
    /\ Set_scan(s, x[1]) > 0
    /\ MidKey(x) \in Range(s.buckets[Set_scan(s, x[1])].b16his)

LeafIn(b, key) == b.buckets[CHOOSE k \in 1..Len(b.b16his) : b.b16his[k] = key]

Leaf(s, x) == LeafIn(s.buckets[Set_scan(s, x[1])], MidKey(x))

\* the mid bucket Add, Has and Del of x work on: the first entry of
\* s.buckets whose hi is x[1]; HasMid tells whether there is one
HasMid(s, x) == Set_scan(s, x[1]) > 0

MidOf(s, x) == s.buckets[Set_scan(s, x[1])]

\* the receiver and the operand of the last call, before and after it
RecvPre == last.pre[last.recv]
RecvPost == sets[last.recv]
ArgPre == last.pre[last.arg]
ArgPost == sets[last.arg]

(***************************************************************************)
(* C1.  After Add(x), in whatever state the set was: Has(x) is true, Len() *)
(* is one larger than before if Has(x) was false before and unchanged if   *)
(* it was true, and Has(y) is unchanged for every y # x.                   *)
(***************************************************************************)
C1_AddContract ==
    last.op = "Add" =>
        /\ Set_Has(RecvPost, last.x)
        /\ Set_Len(RecvPost) =
              Set_Len(RecvPre) + (IF Set_Has(RecvPre, last.x) THEN 0 ELSE 1)
        /\ \A y \in Universe \ {last.x} : Set_Has(RecvPost, y) = Set_Has(RecvPre, y)

\* an Add of a new value to a leaf whose small pool was full: the leaf is a
\* bitmap afterwards
C1_Witness ==
    /\ last.op = "Add"
    /\ RecvPre = SeedFullPool
    /\ ~Set_Has(RecvPre, last.x)
    /\ Set_Has(RecvPost, last.x)
    /\ RecvPost.buckets[1].buckets[1].bits # <<>>
    /\ Set_Len(RecvPost) = smallPoolCap + 1

(***************************************************************************)
(* C2.  After Del(x), in whatever state the set was: Has(x) is false,      *)
(* Len() is one smaller than before exactly when Has(x) was true before    *)
(* (unchanged otherwise), and Has(y) is unchanged for every y # x.         *)
(***************************************************************************)
C2_DelContract ==
    last.op = "Del" =>
        /\ ~Set_Has(RecvPost, last.x)
        /\ Set_Len(RecvPost) =
              Set_Len(RecvPre) - (IF Set_Has(RecvPre, last.x) THEN 1 ELSE 0)
        /\ \A y \in Universe \ {last.x} : Set_Has(RecvPost, y) = Set_Has(RecvPre, y)

\* a Del of the first of the 56 values of a full small pool
C2_Witness ==
    /\ last.op = "Del"
    /\ RecvPre = SeedFullPool
    /\ Set_Has(RecvPre, last.x)
    /\ ~Set_Has(RecvPost, last.x)
    /\ Set_Len(RecvPost) = smallPoolCap - 1

(***************************************************************************)
(* C3.  In every reachable state Len() equals the number of values         *)
(* AppendTo(nil) returns, which equals the number of distinct x for which  *)
(* Has(x) is true.                                                         *)
(***************************************************************************)
C3_LenIsCount ==
    \A o \in Objs :
        /\ Set_Len(sets[o]) = Cardinality(Members(sets[o]))
        /\ \A p \in Set_sortPerms(sets[o].buckets) :
              Set_Len(sets[o]) = Len(Set_AppendTo(sets[o], <<>>, p).out)

(***************************************************************************)
(* C4.  AppendTo(dst) returns dst followed by exactly the members of the   *)
(* set in strictly ascending order, and Has(x) is the same for every x     *)
(* before and after the call.                                              *)
(***************************************************************************)
C4_AppendToSorted ==
    last.op = "AppendTo" =>
        LET n   == Len(last.dst)
            new == SubSeq(last.out, n + 1, Len(last.out))
        IN  /\ SubSeq(last.out, 1, n) = last.dst
            /\ StrictlyAscending(new)
            /\ Range(new) = Members(RecvPre)
            /\ Members(RecvPost) = Members(RecvPre)

(***************************************************************************)
(* C5.  After s.Intersect(a), a being s itself or another set: Has(x) on s *)
(* is true exactly for the x that were members of both before the call,    *)
(* and Len() of s is at most the smaller of the two previous lengths.      *)
(***************************************************************************)
C5_IntersectMembers ==
    last.op = "Intersect" =>
        /\ Members(RecvPost) = Members(RecvPre) \cap Members(ArgPre)
        /\ Set_Len(RecvPost) <= Set_Len(RecvPre)
        /\ Set_Len(RecvPost) <= Set_Len(ArgPre)

(***************************************************************************)
(* C6.  After s.Subtract(a): the members of s are exactly the previous     *)
(* members of s that were not members of a, Len() of s is their number,    *)
(* and the membership of a is unchanged when a is another object.          *)
(***************************************************************************)
C6_SubtractMembers ==
    last.op = "Subtract" =>
        /\ Members(RecvPost) = Members(RecvPre) \ Members(ArgPre)
        /\ Set_Len(RecvPost) = Cardinality(Members(RecvPre) \ Members(ArgPre))
        /\ last.arg # last.recv => Members(ArgPost) = Members(ArgPre)

(***************************************************************************)
(* C7.  After s.Union(a): the members of s are exactly the previous        *)
(* members of s and of a, Len() of s is their number; a.Union(s) from the  *)
(* same sets gives the same membership; s.Union(s) leaves membership and   *)
(* Len() of s unchanged; membership and Len() of a are unchanged.          *)
(***************************************************************************)
C7_UnionMembers ==
    last.op = "Union" =>
        /\ Members(RecvPost) = Members(RecvPre) \cup Members(ArgPre)
        /\ Set_Len(RecvPost) = Cardinality(Members(RecvPre) \cup Members(ArgPre))
        /\ Members(Set_Union(ArgPre, RecvPre, last.arg = last.recv).s) = Members(RecvPost)
        /\ last.arg = last.recv =>
              Members(RecvPost) = Members(RecvPre) /\ Set_Len(RecvPost) = Set_Len(RecvPre)
        /\ Members(ArgPost) = Members(ArgPre) \/ last.arg = last.recv
        /\ Set_Len(ArgPost) = Set_Len(ArgPre) \/ last.arg = last.recv

(***************************************************************************)
(* C8.  After s.UnionMayOwn(a), s and a different objects, whichever is    *)
(* larger: the members of s are exactly the previous members of s and of   *)
(* a, and Len() of s is their number.                                      *)
(***************************************************************************)
C8_UnionMayOwnMembers ==
    (last.op = "UnionMayOwn" /\ last.arg # last.recv) =>
        /\ Members(RecvPost) = Members(RecvPre) \cup Members(ArgPre)
        /\ Set_Len(RecvPost) = Cardinality(Members(RecvPre) \cup Members(ArgPre))

(***************************************************************************)
(* C9.  c = s.Clone() has the same membership and Len() as s, s.Equal(c)   *)
(* is true, and the clone of an empty set is an empty set.                 *)
(***************************************************************************)
C9_CloneEqual ==
    last.op = "Clone" =>
        /\ Members(ArgPost) = Members(RecvPre)
        /\ Set_Len(ArgPost) = Set_Len(RecvPre)
        /\ Set_Equal(RecvPost, ArgPost, FALSE).equal
        /\ Set_Len(RecvPre) = 0 => ArgPost = ZeroSet

(***************************************************************************)
(* C10.  s.Equal(a) returns true if and only if s and a have exactly the   *)
(* same members; so s.Equal(s) is true and s.Equal(a) = a.Equal(s).        *)
(***************************************************************************)
C10_EqualIffSameMembers ==
    last.op = "Equal" =>
        /\ last.ret = (Members(RecvPre) = Members(ArgPre))
        /\ last.arg = last.recv => last.ret
        /\ last.ret = Set_Equal(ArgPre, RecvPre, last.arg = last.recv).equal

(***************************************************************************)
(* C11.  Every buffer that bucket32.forEach or the slow path of            *)
(* bucket16.intersect takes from partBufPool is put back before the call   *)
(* returns, on every exit path, also when the callback returns false: when *)
(* a call of ForEach, of one of its callers Union, UnionMayOwn, Subtract   *)
(* and Equal, or of Intersect has returned, as many buffers were put back  *)
(* as were taken.                                                          *)
(***************************************************************************)
C11_PoolBuffersReturned == last.put = last.got

\* how many times x was passed in the parts of calls
TimesPassed(calls, x) ==
    Cardinality({ci \in {<<c, i>> : c \in 1..Len(calls), i \in 1..smallPoolCap + 1} :
                    ci[2] <= Len(calls[ci[1]]) /\ calls[ci[1]][ci[2]] = x})

\* the values passed in the parts of calls
Passed(calls) == UNION {Range(calls[c]) : c \in 1..Len(calls)}

(***************************************************************************)
(* C12.  ForEach(f) with an f that returns true always passes every member *)
(* of the set to f exactly once across all batches and passes no           *)
(* non-member; once a call of f has returned false, ForEach makes no       *)
(* further call of f, also not for later mid buckets.                      *)
(***************************************************************************)
C12_ForEachVisits ==
    last.op = "ForEach" =>
        /\ last.stopAt = 0 =>
              /\ \A x \in Members(RecvPre) : TimesPassed(last.calls, x) = 1
              /\ Passed(last.calls) \subseteq Members(RecvPre)
        /\ last.stopAt > 0 => Len(last.calls) <= last.stopAt

\* the values of the leaf of x, as far as membership is observed on them
LeafValues(x) == {y \in Universe : y[1] = x[1] /\ MidKey(y) = MidKey(x)}

(***************************************************************************)
(* C13.  When 57 distinct values sharing the upper 48 bits are added, the  *)
(* first 56 are held in the small pool of their leaf, and the Add of the   *)
(* 57th switches the leaf to a bitmap (bits allocated, smallPoolLen 0)     *)
(* whose bits are those of the 57 values and no other; Has is then true of *)
(* each of the 57, false of every other value of the leaf, and Len() has   *)
(* grown by one with each of them.                                         *)
(***************************************************************************)
C13_PromotionAt57 ==
    /\ Leaf(SeedFullPool, Val(0, 0, 0)).bits = <<>>
    /\ Leaf(SeedFullPool, Val(0, 0, 0)).smallPoolLen = smallPoolCap
    /\ Set_Len(SeedFullPool) = Set_Len(ZeroSet) + smallPoolCap
    /\ (/\ last.op = "Add"
        /\ HasLeaf(RecvPre, last.x)
        /\ Leaf(RecvPre, last.x).bits = <<>>
        /\ Leaf(RecvPre, last.x).smallPoolLen = smallPoolCap
        /\ ~Set_Has(RecvPre, last.x))
       => /\ Leaf(RecvPost, last.x).bits # <<>>
          /\ Leaf(RecvPost, last.x).smallPoolLen = 0
          /\ Leaf(RecvPost, last.x).bits[1] =
                {getWordNumBitMask(v) :
                    v \in Range(Leaf(RecvPre, last.x).smallPool) \cup {Low(last.x)}}
          /\ Cardinality(Leaf(RecvPost, last.x).bits[1]) = smallPoolCap + 1
          /\ \A y \in LeafValues(last.x) :
                Set_Has(RecvPost, y) = (Set_Has(RecvPre, y) \/ y = last.x)
          /\ Set_Len(RecvPost) = Set_Len(RecvPre) + 1

\* the Add of a 57th value to the leaf that holds the 56 values 0..55 in its
\* small pool
C13_Witness ==
    /\ last.op = "Add"
    /\ RecvPre = SeedFullPool
    /\ last.x = Val(0, 0, smallPoolCap)
    /\ Leaf(RecvPost, last.x).smallPoolLen = 0
    /\ Cardinality(Leaf(RecvPost, last.x).bits[1]) = smallPoolCap + 1
    /\ Set_Len(RecvPost) = Set_Len(ZeroSet) + smallPoolCap + 1

(***************************************************************************)
(* C14.  Operations on a nil or never-initialized Set are safe and give    *)
(* the empty-set answer: Len() is 0, Has(x) is false for every x, ForEach  *)
(* calls f zero times, AppendTo returns dst unchanged, and Add(x) behaves  *)
(* as if starting from an empty set (afterwards Has(x) is true and Len()   *)
(* is 1) without failing.  The never-initialized Set is the zero value     *)
(* Set{}.  This is the claim as it stands.                                 *)
(***************************************************************************)
C14_NilSetSafe ==
    /\ ~last.panic
    /\ last.op = "nil.Len" => last.num = 0
    /\ last.op = "nil.Has" => ~last.ret
    /\ last.op = "nil.ForEach" => last.calls = <<>>
    /\ last.op = "nil.AppendTo" => last.out = last.dst
    /\ Set_Len(ZeroSet) = 0
    /\ \A x \in Universe : ~Set_Has(ZeroSet, x)
    /\ (last.op = "ForEach" /\ RecvPre = ZeroSet) => last.calls = <<>>
    /\ (last.op = "AppendTo" /\ RecvPre = ZeroSet) => last.out = last.dst
    /\ (last.op = "Add" /\ RecvPre = ZeroSet) =>
          Set_Has(RecvPost, last.x) /\ Set_Len(RecvPost) = 1

(***************************************************************************)
(* C14, amended.  Len, Has, ForEach and AppendTo on a nil Set are safe and *)
(* give the empty-set answer (0, false, no call of f, dst unchanged); the  *)
(* same calls on a never-initialized Set (the zero value) give the same    *)
(* answers, and Add(x) on it leaves Has(x) true and Len() 1.  Add on a nil *)
(* Set is not among the safe calls: it panics.                             *)
(***************************************************************************)
C14_NilReadsSafe ==
    /\ last.panic <=> last.op = "nil.Add"
    /\ last.op = "nil.Len" => last.num = 0
    /\ last.op = "nil.Has" => ~last.ret
    /\ last.op = "nil.ForEach" => last.calls = <<>>
    /\ last.op = "nil.AppendTo" => last.out = last.dst
    /\ Set_Len(ZeroSet) = 0
    /\ \A x \in Universe : ~Set_Has(ZeroSet, x)
    /\ (last.op = "ForEach" /\ RecvPre = ZeroSet) => last.calls = <<>>
    /\ (last.op = "AppendTo" /\ RecvPre = ZeroSet) => last.out = last.dst
    /\ (last.op = "Add" /\ RecvPre = ZeroSet) =>
          Set_Has(RecvPost, last.x) /\ Set_Len(RecvPost) = 1

\* AppendTo on a nil Set with a dst that holds a value, after an Add on a
\* never-initialized Set
C14_Witness ==
    /\ last.op = "nil.AppendTo"
    /\ last.dst # <<>>
    /\ last.out = last.dst
    /\ \E o \in Objs : Set_Len(sets[o]) = 1 /\ Len(sets[o].buckets) = 1

\* no two entries of s.buckets have the same hi
OneBucketPerKey(s) ==
    \A i, j \in 1..Len(s.buckets) : i # j => s.buckets[i].hi # s.buckets[j].hi

(***************************************************************************)
(* C15.  In every state of a Set reachable by Add, Del, Union, Intersect,  *)
(* Subtract and AppendTo calls, s.buckets holds at most one entry per      *)
(* high-32 key, also after Intersect has zeroed entries in place.  Stated  *)
(* on one call: a call of one of these on sets that hold at most one entry *)
(* per key leaves sets that do.  (A new Set holds no entry, so this is the *)
(* step that carries the property to every reachable state.)               *)
(***************************************************************************)
C15_OneBucketPerKey ==
    (/\ last.op \in {"Add", "Del", "Union", "Intersect", "Subtract", "AppendTo"}
     /\ \A o \in Objs : OneBucketPerKey(last.pre[o]))
    => \A o \in Objs : OneBucketPerKey(sets[o])

\* keys a binary search is observed on: those of the values of Universe and
\* some more
MidKeys == {MidKey(x) : x \in Universe} \cup {1, 2 * maxUnsortedBuckets + 1}

StrictlyAscendingKeys(q) == \A i \in 2..Len(q) : q[i-1] < q[i]

\* binarySearch16 finds key in b iff b holds it
SearchFinds(b, key) ==
    (/\ binarySearch16(b.b16his, key) < Len(b.b16his)
     /\ b.b16his[binarySearch16(b.b16his, key) + 1] = key)
    <=> key \in Range(b.b16his)

MidBucketOK(b) ==
    /\ Len(b.b16his) = Len(b.buckets)
    /\ \A i, j \in 1..Len(b.b16his) : i # j => b.b16his[i] # b.b16his[j]
    /\ Len(b.buckets) > maxUnsortedBuckets =>
          /\ StrictlyAscendingKeys(b.b16his)
          /\ \A key \in MidKeys : SearchFinds(b, key)

\* the Add of a value with a new key to the mid bucket pre left post: the
\* keys of pre and the new one, each with the leaf it had
KeyInserted(pre, post, key) ==
    /\ Len(post.b16his) = Len(pre.b16his) + 1
    /\ Range(post.b16his) = Range(pre.b16his) \cup {key}
    /\ \A k \in Range(pre.b16his) : LeafIn(post, k) = LeafIn(pre, k)

(***************************************************************************)
(* C16.  In every reachable state each mid bucket has len(b16his) equal to *)
(* len(buckets) and pairwise distinct keys, and when it holds more than 32 *)
(* entries its keys are strictly ascending, so that binarySearch16 finds a *)
(* key iff it is present.  The Add of a new key to a mid bucket of 32      *)
(* entries leaves 33 sorted entries, and the Add of a new key to a mid     *)
(* bucket of more than 32 leaves it sorted, each key with its leaf.        *)
(***************************************************************************)
C16_MidBucketOrder ==
    /\ \A o \in Objs : \A i \in 1..Len(sets[o].buckets) : MidBucketOK(sets[o].buckets[i])
    /\ (/\ last.op = "Add"
        /\ HasMid(RecvPre, last.x)
        /\ ~HasLeaf(RecvPre, last.x)
        /\ Len(MidOf(RecvPre, last.x).buckets) >= maxUnsortedBuckets)
       => /\ KeyInserted(MidOf(RecvPre, last.x), MidOf(RecvPost, last.x), MidKey(last.x))
          /\ StrictlyAscendingKeys(MidOf(RecvPost, last.x).b16his)

\* the Add that makes the count 33: the mid bucket held 32 keys, not sorted,
\* and holds 33 sorted ones afterwards
C16_Witness ==
    /\ last.op = "Add"
    /\ HasMid(RecvPre, last.x)
    /\ ~HasLeaf(RecvPre, last.x)
    /\ Len(MidOf(RecvPre, last.x).buckets) = maxUnsortedBuckets
    /\ ~StrictlyAscendingKeys(MidOf(RecvPre, last.x).b16his)
    /\ Len(MidOf(RecvPost, last.x).buckets) = maxUnsortedBuckets + 1
    /\ StrictlyAscendingKeys(MidOf(RecvPost, last.x).b16his)

(***************************************************************************)
(* C17.  s.Intersect(a), a being another object than s, leaves a as it     *)
(* was: its membership and Len(), the order of its top-level array and of  *)
(* the arrays of its mid buckets, and the contents of each of its leaves,  *)
(* although Intersect sorts shallow copies of the arrays of a whose leaves *)
(* share their bitmaps with a.                                             *)
(***************************************************************************)
C17_IntersectKeepsOperand ==
    (last.op = "Intersect" /\ last.arg # last.recv) =>
        /\ Members(ArgPost) = Members(ArgPre)
        /\ Set_Len(ArgPost) = Set_Len(ArgPre)
        /\ ArgPost = ArgPre

\* an Intersect that found common members, with an operand whose mid bucket
\* of 32 leaves is not sorted; and one with an operand whose top-level array
\* is not sorted
C17_Witness ==
    /\ last.op = "Intersect"
    /\ last.arg # last.recv
    /\ Set_Len(RecvPost) > 0
    /\ ArgPost = ArgPre
    /\ \/ \E i \in 1..Len(ArgPre.buckets) :
             /\ Len(ArgPre.buckets[i].buckets) = maxUnsortedBuckets
             /\ ~IsSortedSeq(ArgPre.buckets[i].b16his)
       \/ ~Set_isSorted(ArgPre.buckets)

\* the place of key in b that addSlow and delSlow select: the one
\* binarySearch16 gives above maxUnsortedBuckets entries and the one the scan
\* gives otherwise; -1 when they find key at none
SlowIndex(b, key) ==
    IF Len(b.buckets) > maxUnsortedBuckets
    THEN IF /\ binarySearch16(b.b16his, key) < Len(b.b16his)
            /\ b.b16his[binarySearch16(b.b16his, key) + 1] = key
         THEN binarySearch16(b.b16his, key)
         ELSE -1
    ELSE b32_scan(b, key)

\* two results of add or del that differ in the hint at most
SameButHint(r1, r2) ==
    /\ r1.ok = r2.ok
    /\ [r1.b EXCEPT !.hint = 0] = [r2.b EXCEPT !.hint = 0]

HintIsCache(b) ==
    /\ b.hint >= 0
    /\ b.hint < Len(b.b16his) => SlowIndex(b, b.b16his[b.hint + 1]) = b.hint

\* add and del of x on b give what their slow paths give
SlowPathAgrees(b, x) ==
    /\ SameButHint(b32_add(b, x),
                   b32_addSlow(b, x \div bitsPerBucket, x % bitsPerBucket))
    /\ SameButHint(b32_del(b, x),
                   b32_delSlow(b, x \div bitsPerBucket, x % bitsPerBucket))

(***************************************************************************)
(* C18.  The hint of a mid bucket is only a cache.  In every reachable     *)
(* state, of every mid bucket: the hint is not negative, and when it names *)
(* a place of the bucket, the key at that place is found at that same      *)
(* place by the scan or the binary search of the slow path, so the fast    *)
(* path of add and del works on the leaf the slow path selects, also when  *)
(* the hint is stale after a sort, a shift insertion, a Clone or an        *)
(* Intersect.  And at every Add(x) and Del(x), on the mid bucket the call  *)
(* works on, add and del return the same and leave the same keys and       *)
(* leaves as their slow paths do, so neither the result nor the members    *)
(* depend on the hint.                                                     *)
(***************************************************************************)
C18_HintIsCache ==
    /\ \A o \in Objs : \A i \in 1..Len(sets[o].buckets) :
          HintIsCache(sets[o].buckets[i])
    /\ (last.op \in {"Add", "Del"} /\ HasMid(RecvPre, last.x)) =>
          SlowPathAgrees(MidOf(RecvPre, last.x), last.x[2])

\* an Add of a value that is there, through the fast path of a mid bucket of
\* more than 32 leaves, and an Add through the slow path that left a hint
\* other than 0
C18_Witness ==
    /\ last.op = "Add"
    /\ HasLeaf(RecvPre, last.x)
    /\ Len(MidOf(RecvPre, last.x).buckets) > maxUnsortedBuckets
    /\ MidOf(RecvPre, last.x).hint < Len(MidOf(RecvPre, last.x).b16his)
    /\ MidOf(RecvPre, last.x).b16his[MidOf(RecvPre, last.x).hint + 1] = MidKey(last.x)
    /\ \E o \in Objs : \E i \in 1..Len(sets[o].buckets) : sets[o].buckets[i].hint > 0

\* a leaf is in one representation: with a bitmap its pool is empty, without
\* one the pool holds at most smallPoolCap values, no value twice
OneRepresentation(l) ==
    IF l.bits # <<>>
    THEN l.smallPoolLen = 0
    ELSE /\ l.smallPoolLen \in 0..smallPoolCap
         /\ Len(l.smallPool) = l.smallPoolLen
         /\ Cardinality(Range(l.smallPool)) = l.smallPoolLen

\* every leaf of mid bucket b that has a bitmap is in c under its key and has
\* a bitmap there
BitmapsKept(b, c) ==
    \A k \in 1..Len(b.b16his) :
        b.buckets[k].bits # <<>> =>
            /\ b.b16his[k] \in Range(c.b16his)
            /\ LeafIn(c, b.b16his[k]).bits # <<>>

(***************************************************************************)
(* C19.  No Add and no Del returns a leaf from the bitmap to the small     *)
(* pool: every leaf that had a bitmap before the call is there under its   *)
(* key after it and has a bitmap, also when Del removed its last member.   *)
(* And in every reachable state every leaf is in one representation: with  *)
(* a bitmap smallPoolLen is 0, without one smallPoolLen is in 0..56 and    *)
(* the used pool slots hold pairwise distinct values.                      *)
(***************************************************************************)
C19_NoDemotion ==
    /\ \A o \in Objs : \A i \in 1..Len(sets[o].buckets) :
          \A k \in 1..Len(sets[o].buckets[i].buckets) :
              OneRepresentation(sets[o].buckets[i].buckets[k])
    /\ last.op \in {"Add", "Del"} =>
          /\ Len(RecvPost.buckets) >= Len(RecvPre.buckets)
          /\ \A i \in 1..Len(RecvPre.buckets) :
                BitmapsKept(RecvPre.buckets[i], RecvPost.buckets[i])

\* a Del that removes the last member of a leaf with a bitmap, which keeps
\* the bitmap, all bits clear
C19_Witness ==
    /\ last.op = "Del"
    /\ HasLeaf(RecvPre, last.x)
    /\ Leaf(RecvPre, last.x).bits = <<{getWordNumBitMask(Low(last.x))}>>
    /\ Leaf(RecvPost, last.x).bits = <<{}>>
    /\ Leaf(RecvPost, last.x).smallPoolLen = 0

(***************************************************************************)
(* C20.  The merge-join loops of Set.Intersect and bucket32.intersect      *)
(* terminate.  Of every Intersect call: no pass of the loop of             *)
(* Set.Intersect or of a loop of bucket32.intersect it ran went on without *)
(* having moved i or j forward; each of these loops was left, the one of   *)
(* Set.Intersect within len(s.buckets) + len(a.buckets) + 1 passes and one *)
(* of bucket32.intersect within len(b.b16his) + len(a.b16his) + 1; and     *)
(* when a loop was left, i had reached the length of the receiver's array  *)
(* and every entry of it had been intersected with the entry of the        *)
(* operand of the same key or zeroed.                                      *)
(***************************************************************************)
C20_MergeJoinTerminates ==
    last.op = "Intersect" =>
        /\ ~last.loop.stuck
        /\ last.loop.left
        /\ last.loop.covered

\* an Intersect whose loops made four passes or more and left the receiver
\* with an entry zeroed and one intersected that kept members
C20_Witness ==
    /\ last.op = "Intersect"
    /\ last.loop.passes >= 4
    /\ \E i \in 1..Len(RecvPost.buckets) : RecvPost.buckets[i] = ZeroBucket32
    /\ Set_Len(RecvPost) > 0
====
